---- MODULE Spec2Model ----
(***************************************************************************)
(* Model of the knowledge store of the JARVIS assistant backend:           *)
(* backend/app/vector_store.py (class VectorStore) and the HTTP handlers   *)
(* of backend/app/main.py that call it.                                    *)
(*                                                                         *)
(* Scores are cosine similarities kept in fixed point, in hundredths       *)
(* (100 is 1.0, 30 is 0.3).  The embeddings below have integer norms, so   *)
(* every score of the model is exact.                                      *)
(***************************************************************************)
EXTENDS Integers, Sequences, FiniteSets, TLC

\* ---------------------------------------------------------------- bounds
\* add_knowledge calls made on a local store
MaxAdds == 2
\* add_knowledge calls made on a remote (Pinecone) store
MaxUpserts == 2
\* largest explicit top_k passed to search
MaxTopK == 2

\* ------------------------------------------------------------- constants
\* settings.MAX_CONTEXT_LENGTH
MAX_CONTEXT_LENGTH == 3
\* default of search's top_k parameter
DefaultTopK == 3
\* default of search's threshold parameter, 0.3, in hundredths
DefaultThreshold == 30

\* ---------------------------------------------------------------- inputs
Texts == {"cats", "dogs", ""}
TopKs == ((0 - 1) .. MaxTopK) \cup {DefaultTopK}
\* texts searched for
Queries == {"cats", ""}
Thresholds == {0, DefaultThreshold}
\* a metadata dict is a set of <<key, value>> pairs with distinct keys
Metadatas == { {}, {<<"text", "dogs">>} }
Faults == {"none", "embed", "backend"}

VARIABLES
  use_pinecone,   \* self.use_pinecone, fixed at construction
  memory_store,   \* self.memory_store: sequence of records (local backend)
  index,          \* contents of the Pinecone index: set of vectors
  uuids,          \* number of uuid4() values drawn so far
  added,          \* ids that add_knowledge has returned
  deleted,        \* ids for which a local delete has returned True
  ret,            \* the last completed call and what it returned
  thr             \* the thread-pool thread running get_stats for /vector-stats

vars == <<use_pinecone, memory_store, index, uuids, added, deleted, ret, thr>>

\* ----------------------------------------------------------- dictionaries
DictKeys(d) == {p[1] : p \in d}

DictGet(d, k, default) ==
  IF k \in DictKeys(d) THEN (CHOOSE p \in d : p[1] = k)[2] ELSE default

\* {**d, **e}: the keys of e override those of d
DictUpdate(d, e) == {p \in d : p[1] \notin DictKeys(e)} \cup e

\* ------------------------------------------------------------- embeddings
\* self.embedder.encode(text).tolist(): deterministic, fixed dimension
generate_embedding(text) ==
  CASE text = "cats" -> <<3, 4>>
    [] text = "dogs" -> <<5, 0>>
    [] OTHER         -> <<0, 0>>

RECURSIVE Dot(_, _)
Dot(a, b) == IF a = <<>> THEN 0 ELSE Head(a) * Head(b) + Dot(Tail(a), Tail(b))

\* np.linalg.norm
Norm(a) == CHOOSE n \in 0 .. Dot(a, a) : n * n <= Dot(a, a) /\ (n + 1) * (n + 1) > Dot(a, a)

\* the dot product, not divided by the norms
DotSimilarity(a, b) == Dot(a, b) * 100

\* np.dot(a, b) / denom if denom else 0.0
_cosine_similarity(a, b) ==
  LET denom == Norm(a) * Norm(b)
  IN  IF denom # 0 THEN (Dot(a, b) * 100) \div denom ELSE 0

\* one id drawn when the module is loaded and handed out by every call
UuidOfFirstCall(n) == 1

\* str(uuid.uuid4()): a value never drawn before
uuid4(n) == n + 1

\* datetime.utcnow().isoformat() at the n-th add_knowledge call
utcnow(n) == ToString(n)

\* ------------------------------------------------------------ list helpers
Min(a, b) == IF a < b THEN a ELSE b
Max(a, b) == IF a > b THEN a ELSE b

\* s[:k + 1]
SliceOneMore(s, k) == SubSeq(s, 1, Min(k + 1, Len(s)))

\* Python's s[:k]
Slice(s, k) ==
  LET n == Len(s)
      stop == IF k < 0 THEN Max(n + k, 0) ELSE Min(k, n)
  IN  SubSeq(s, 1, stop)

\* a score test that drops the entries exactly at the threshold
SurvivesStrictly(score, threshold) == score > threshold

\* the score test of search
Survives(score, threshold) == score >= threshold

\* place x in a list sorted by descending score, behind every entry whose
\* score is at least x's
RECURSIVE InsertDesc(_, _)
InsertDesc(sorted, x) ==
  IF sorted = <<>> THEN <<x>>
  ELSE IF Head(sorted).score >= x.score
       THEN <<Head(sorted)>> \o InsertDesc(Tail(sorted), x)
       ELSE <<x>> \o sorted

\* as InsertDesc, but in front of the entries whose score equals x's
RECURSIVE InsertBeforeTies(_, _)
InsertBeforeTies(sorted, x) ==
  IF sorted = <<>> THEN <<x>>
  ELSE IF Head(sorted).score > x.score
       THEN <<Head(sorted)>> \o InsertBeforeTies(Tail(sorted), x)
       ELSE <<x>> \o sorted

RECURSIVE SortFromBeforeTies(_, _)
SortFromBeforeTies(sorted, rest) ==
  IF rest = <<>> THEN sorted
  ELSE SortFromBeforeTies(InsertBeforeTies(sorted, Head(rest)), Tail(rest))

\* a sort by descending score that reverses the entries of equal score
SortTiesReversed(scored) == SortFromBeforeTies(<<>>, scored)

RECURSIVE SortFrom(_, _)
SortFrom(sorted, rest) ==
  IF rest = <<>> THEN sorted
  ELSE SortFrom(InsertDesc(sorted, Head(rest)), Tail(rest))

\* scored.sort(key=lambda x: x["score"], reverse=True): stable
SortByScoreDesc(scored) == SortFrom(<<>>, scored)

\* ------------------------------------------------------------------ search
\* the scoring loop of the in-memory search
RECURSIVE ScoreEntries(_, _, _)
ScoreEntries(store, query_embedding, threshold) ==
  IF store = <<>> THEN <<>>
  ELSE LET entry == Head(store)
           score == _cosine_similarity(query_embedding, entry.embedding)
           rest  == ScoreEntries(Tail(store), query_embedding, threshold)
       IN  IF Survives(score, threshold)
           THEN <<[id |-> entry.id, text |-> entry.text, score |-> score,
                   metadata |-> entry.metadata, timestamp |-> entry.timestamp]>> \o rest
           ELSE rest

\* the loop over results.matches of the Pinecone search
RECURSIVE FilterMatches(_, _)
FilterMatches(matches, threshold) ==
  IF matches = <<>> THEN <<>>
  ELSE LET match == Head(matches)
           rest  == FilterMatches(Tail(matches), threshold)
       IN  IF match.score >= threshold
           THEN <<[id |-> match.id, text |-> DictGet(match.metadata, "text", ""),
                   score |-> match.score, metadata |-> match.metadata,
                   timestamp |-> DictGet(match.metadata, "timestamp", "None")]>> \o rest
           ELSE rest

\* a failure swallowed into an empty result
OutcomeSwallowed(fault, value) ==
  IF fault # "none" THEN [raised |-> "none", result |-> <<>>]
  ELSE [raised |-> "none", result |-> value]

\* what a call that ran into fault hands to its caller: the exception
\* propagates, there is no except clause in VectorStore
Outcome(fault, value) ==
  IF fault = "embed" THEN [raised |-> "EmbeddingError", result |-> <<>>]
  ELSE IF fault = "backend" THEN [raised |-> "BackendError", result |-> <<>>]
  ELSE [raised |-> "none", result |-> value]

\* VectorStore.search; answer is results.matches of self.index.query
search(pinecone, store, query, top_k, threshold, fault, answer) ==
  LET query_embedding == generate_embedding(query)
  IN  IF pinecone
      THEN Outcome(fault, FilterMatches(answer, threshold))
      ELSE Outcome(fault,
                   Slice(SortByScoreDesc(ScoreEntries(store, query_embedding, threshold)),
                         top_k))

\* ------------------------------------------------------------ remote index
\* sequences without repetition over S
SeqsOver(S) ==
  UNION {{s \in [1 .. n -> S] : \A i, j \in 1 .. n : s[i] = s[j] => i = j} :
         n \in 0 .. Cardinality(S)}

\* the matches self.index.query may answer with: stored vectors with their
\* score against the query vector, in an order and number the service picks
QueryAnswers(idx, query) ==
  SeqsOver({[id |-> v.id,
             score |-> _cosine_similarity(generate_embedding(query), v.values),
             metadata |-> v.metadata] : v \in idx})

\* self.index.upsert(vectors=[(id, values, metadata)])
Upsert(idx, id, values, metadata) ==
  {v \in idx : v.id # id} \cup {[id |-> id, values |-> values, metadata |-> metadata]}

StoreIds(store) == {store[i].id : i \in 1 .. Len(store)}

\* drops the oldest entry whatever its id
RemoveOldest(store, entry_id) == IF store = <<>> THEN <<>> ELSE Tail(store)

\* keeps the entries in front of the first match and drops the rest
RECURSIVE RemoveFromId(_, _)
RemoveFromId(store, entry_id) ==
  IF store = <<>> THEN <<>>
  ELSE IF Head(store).id # entry_id
       THEN <<Head(store)>> \o RemoveFromId(Tail(store), entry_id)
       ELSE <<>>

\* the list comprehension of delete
RECURSIVE RemoveId(_, _)
RemoveId(store, entry_id) ==
  IF store = <<>> THEN <<>>
  ELSE IF Head(store).id # entry_id
       THEN <<Head(store)>> \o RemoveId(Tail(store), entry_id)
       ELSE RemoveId(Tail(store), entry_id)

\* the dimension of the embedding model, whatever the store holds
StatsDimensionOfModel(store) == Len(generate_embedding(""))

\* the "dimension" entry of get_stats
StatsDimension(store) ==
  IF store # <<>> THEN Len(store[1].embedding) ELSE 0

\* the dict get_stats returns for the in-memory store
LocalStats(store) ==
  [backend |-> "memory", total_entries |-> Len(store),
   dimension |-> StatsDimension(store)]

\* stats.dimension, stats.total_vector_count of describe_index_stats
RemoteStats(idx) ==
  [backend |-> "pinecone",
   dimension |-> IF idx = {} THEN 0 ELSE Len((CHOOSE v \in idx : TRUE).values),
   total_vectors |-> Cardinality(idx)]

\* the calls a method makes on self.index: none on the in-memory backend,
\* none once the embedding step has failed, none at all in list_all
RemoteCalls(pinecone, op, fault) ==
  IF ~pinecone \/ fault = "embed" THEN <<>>
  ELSE CASE op = "add"    -> <<"upsert">>
         [] op = "search" -> <<"query">>
         [] op = "chat"   -> <<"query">>
         [] op = "delete" -> <<"delete">>
         [] op = "stats"  -> <<"describe_index_stats">>
         [] OTHER         -> <<>>

\* --------------------------------------------------------------- the state
IdleThread == [pc |-> "idle", total_entries |-> 0, dimension |-> 0,
               raised |-> "none", seen |-> {}]

InitStore(pinecone) ==
  /\ use_pinecone = pinecone
  /\ memory_store = <<>>
  /\ index = {}
  /\ uuids = 0
  /\ added = {}
  /\ deleted = {}
  /\ ret = [op |-> "init"]
  /\ thr = IdleThread

\* the in-memory backend: settings.PINECONE_API_KEY is empty
Init == InitStore(FALSE)

\* the Pinecone backend: settings.PINECONE_API_KEY is set
InitRemote == InitStore(TRUE)

AddBound == IF use_pinecone THEN MaxUpserts ELSE MaxAdds

\* POST /knowledge -> VectorStore.add_knowledge(text, metadata)
AddKnowledge(text, metadata, fault) ==
  /\ uuids < AddBound
  /\ fault = "backend" => use_pinecone
  /\ LET entry_id  == uuid4(uuids)
         embedding == generate_embedding(text)
         timestamp == utcnow(uuids + 1)
         payload   == DictUpdate(DictUpdate({<<"text", text>>}, metadata),
                                 {<<"timestamp", timestamp>>})
         record    == [id |-> entry_id, text |-> text, metadata |-> metadata,
                       timestamp |-> timestamp, embedding |-> embedding]
         out       == Outcome(fault, entry_id)
     IN  /\ uuids' = uuids + 1
         /\ added' = IF fault = "none" THEN added \cup {entry_id} ELSE added
         /\ IF fault # "none"
            THEN UNCHANGED <<memory_store, index>>
            ELSE IF use_pinecone
                 THEN /\ index' = Upsert(index, entry_id, embedding, payload)
                      /\ UNCHANGED memory_store
                 ELSE /\ memory_store' = Append(memory_store, record)
                      /\ UNCHANGED index
         /\ ret' = [op |-> "add", calls |-> RemoteCalls(use_pinecone, "add", fault), text |-> text, metadata |-> metadata,
                    fault |-> fault, raised |-> out.raised,
                    id |-> IF fault = "none" THEN entry_id ELSE 0,
                    status |-> IF fault = "none" THEN 200 ELSE 500]
  /\ UNCHANGED <<use_pinecone, deleted, thr>>

\* VectorStore.search(query, top_k, threshold)
Search(query, top_k, threshold, fault, answer) ==
  /\ fault = "backend" => use_pinecone
  /\ LET out == search(use_pinecone, memory_store, query, top_k, threshold, fault, answer)
     IN  ret' = [op |-> "search", calls |-> RemoteCalls(use_pinecone, "search", fault), query |-> query, top_k |-> top_k,
                 threshold |-> threshold, fault |-> fault, answer |-> answer,
                 raised |-> out.raised, result |-> out.result]
  /\ UNCHANGED <<use_pinecone, memory_store, index, uuids, added, deleted, thr>>

RECURSIVE TextsOf(_)
TextsOf(results) ==
  IF results = <<>> THEN <<>> ELSE <<Head(results).text>> \o TextsOf(Tail(results))

\* POST /chat: search, then the mock LLM, any exception becomes HTTP 500
Chat(message, fault, answer) ==
  /\ message # ""
  /\ fault = "backend" => use_pinecone
  /\ LET out == search(use_pinecone, memory_store, message, MAX_CONTEXT_LENGTH,
                       DefaultThreshold, fault, answer)
     IN  ret' = [op |-> "chat", calls |-> RemoteCalls(use_pinecone, "chat", fault), query |-> message, fault |-> fault,
                 raised |-> out.raised,
                 status |-> IF out.raised # "none" THEN 500 ELSE 200,
                 sources |-> TextsOf(out.result)]
  /\ UNCHANGED <<use_pinecone, memory_store, index, uuids, added, deleted, thr>>

\* success reported only for an id the index holds
RemoteDeletedIfPresent(idx, entry_id) == \E v \in idx : v.id = entry_id

\* what delete returns once self.index.delete has come back: return True
RemoteDeleted(idx, entry_id) == TRUE

\* DELETE /knowledge/{entry_id} -> VectorStore.delete(entry_id)
Delete(entry_id, fault) ==
  /\ fault # "embed"
  /\ fault = "backend" => use_pinecone
  /\ IF use_pinecone
     THEN /\ index' = IF fault = "none" THEN {v \in index : v.id # entry_id} ELSE index
          /\ ret' = [op |-> "delete", calls |-> RemoteCalls(use_pinecone, "delete", fault),
                     id |-> entry_id, fault |-> fault,
                     raised |-> Outcome(fault, TRUE).raised,
                     result |-> (fault = "none" /\ RemoteDeleted(index, entry_id)),
                     status |-> IF fault # "none" THEN 500
                                ELSE IF RemoteDeleted(index, entry_id) THEN 200 ELSE 404]
          /\ UNCHANGED <<memory_store, deleted>>
     ELSE LET initial == Len(memory_store)
              after   == RemoveId(memory_store, entry_id)
              removed == Len(after) < initial
          IN  /\ memory_store' = after
              /\ deleted' = IF removed THEN deleted \cup {entry_id} ELSE deleted
              /\ ret' = [op |-> "delete", calls |-> RemoteCalls(use_pinecone, "delete", fault), id |-> entry_id, fault |-> fault,
                         raised |-> "none", result |-> removed,
                         status |-> IF removed THEN 200 ELSE 404]
              /\ UNCHANGED index
  /\ UNCHANGED <<use_pinecone, uuids, added, thr>>

\* the projections, newest record first
RECURSIVE ProjectionsNewestFirst(_)
ProjectionsNewestFirst(store) ==
  IF store = <<>> THEN <<>>
  ELSE ProjectionsNewestFirst(Tail(store))
       \o <<[id |-> Head(store).id, text |-> Head(store).text,
             metadata |-> Head(store).metadata, timestamp |-> Head(store).timestamp]>>

\* the list comprehension of list_all
RECURSIVE Projections(_)
Projections(store) ==
  IF store = <<>> THEN <<>>
  ELSE <<[id |-> Head(store).id, text |-> Head(store).text,
          metadata |-> Head(store).metadata, timestamp |-> Head(store).timestamp]>>
       \o Projections(Tail(store))

\* GET /knowledge -> VectorStore.list_all()
ListAll ==
  /\ LET knowledge_list == IF use_pinecone THEN <<>> ELSE Projections(memory_store)
     IN  ret' = [op |-> "list", calls |-> RemoteCalls(use_pinecone, "list", "none"),
                 result |-> knowledge_list, count |-> Len(knowledge_list)]
  /\ UNCHANGED <<use_pinecone, memory_store, index, uuids, added, deleted, thr>>

\* GET /stats -> VectorStore.get_stats(), run on the event loop
GetStats ==
  /\ ret' = [op |-> "stats", calls |-> RemoteCalls(use_pinecone, "stats", "none"),
             result |-> IF use_pinecone THEN RemoteStats(index) ELSE LocalStats(memory_store)]
  /\ UNCHANGED <<use_pinecone, memory_store, index, uuids, added, deleted, thr>>

Ids == 1 .. (uuids + 1)

\* self.index.query is reached by a search on the remote backend whose
\* embedding step succeeded, and answers unless it fails itself
Answers(query, fault) ==
  IF use_pinecone /\ fault = "none" THEN QueryAnswers(index, query) ELSE {<<>>}

Next ==
  \/ \E text \in Texts, metadata \in Metadatas, fault \in Faults :
       AddKnowledge(text, metadata, fault)
  \/ \E query \in Queries, top_k \in TopKs, threshold \in Thresholds, fault \in Faults :
       \E answer \in Answers(query, fault) :
         Search(query, top_k, threshold, fault, answer)
  \/ \E message \in Queries, fault \in Faults :
       \E answer \in Answers(message, fault) :
         Chat(message, fault, answer)
  \/ \E entry_id \in Ids, fault \in Faults : Delete(entry_id, fault)
  \/ ListAll
  \/ GetStats

Spec == Init /\ [][Next]_vars

\* ------------------------------------------------------- the remote backend
RemoteTexts == {"cats", "dogs"}
RemoteTopKs == {1, MAX_CONTEXT_LENGTH}
RemoteThresholds == {DefaultThreshold, 100}

NextRemote ==
  \/ \E text \in RemoteTexts, metadata \in Metadatas, fault \in Faults :
       AddKnowledge(text, metadata, fault)
  \/ \E top_k \in RemoteTopKs, threshold \in RemoteThresholds, fault \in Faults :
       \E answer \in Answers("cats", fault) :
         Search("cats", top_k, threshold, fault, answer)
  \/ \E fault \in Faults :
       \E answer \in Answers("cats", fault) : Chat("cats", fault, answer)
  \/ \E entry_id \in Ids, fault \in Faults : Delete(entry_id, fault)
  \/ ListAll
  \/ GetStats

SpecRemote == InitRemote /\ [][NextRemote]_vars

\* ------------------------------------------------------- either backend
\* the store as configured one way or the other
InitBoth == Init \/ InitRemote

NextBoth ==
  \/ ~use_pinecone /\ Next
  \/ use_pinecone /\ NextRemote

SpecBoth == InitBoth /\ [][NextBoth]_vars

\* ------------------------------------ get_stats on a thread-pool thread
\* GET /vector-stats is a plain def: FastAPI runs it on a thread of the pool
\* while the async handlers run on the event loop.  The thread may be
\* switched out between any two reads of self.memory_store.

\* the store states the thread can tell apart: one per successful mutation
Version == Len(memory_store) + 2 * Cardinality(deleted)

\* "total_entries": len(self.memory_store)
StatsReadLen ==
  /\ thr.pc = "idle"
  /\ thr' = [IdleThread EXCEPT !.pc = "test", !.total_entries = Len(memory_store),
                               !.seen = {Version}]
  /\ UNCHANGED <<use_pinecone, memory_store, index, uuids, added, deleted, ret>>

\* ... if self.memory_store else 0
StatsTest ==
  /\ thr.pc = "test"
  /\ thr' = [thr EXCEPT !.pc = IF memory_store # <<>> THEN "index" ELSE "done",
                        !.dimension = 0,
                        !.seen = @ \cup {Version}]
  /\ UNCHANGED <<use_pinecone, memory_store, index, uuids, added, deleted, ret>>

\* len(self.memory_store[0]["embedding"])
StatsIndex ==
  /\ thr.pc = "index"
  /\ thr' = IF memory_store = <<>>
            THEN [thr EXCEPT !.pc = "done", !.raised = "IndexError",
                             !.seen = @ \cup {Version}]
            ELSE [thr EXCEPT !.pc = "done",
                             !.dimension = Len(memory_store[1].embedding),
                             !.seen = @ \cup {Version}]
  /\ UNCHANGED <<use_pinecone, memory_store, index, uuids, added, deleted, ret>>

\* the handler returns (or the exception leaves it) and the thread is free
StatsReturn ==
  /\ thr.pc = "done"
  /\ thr' = IdleThread
  /\ UNCHANGED <<use_pinecone, memory_store, index, uuids, added, deleted, ret>>

NextConc ==
  \/ \E text \in Texts : AddKnowledge(text, {}, "none")
  \/ \E entry_id \in Ids : Delete(entry_id, "none")
  \/ StatsReadLen
  \/ StatsTest
  \/ StatsIndex
  \/ StatsReturn

SpecConc == Init /\ [][NextConc]_vars

\* ================================================================ properties
\* the score the code computes for a stored entry against a query text
Score(query, entry) ==
  _cosine_similarity(generate_embedding(query), entry.embedding)

\* position of the record with this id in the store, 1 being the oldest
Pos(id) == CHOOSE i \in 1 .. Len(memory_store) : memory_store[i].id = id

\* the state after a search on the in-memory store that returned a list;
\* search leaves the store alone, so memory_store is the store it searched
LocalSearchDone == ~use_pinecone /\ ret.op = "search" /\ ret.raised = "none"

\* the stored records whose score against the query reaches the threshold
Survivors(query, threshold) ==
  {i \in 1 .. Len(memory_store) : Score(query, memory_store[i]) >= threshold}

ResultIds == {ret.result[j].id : j \in 1 .. Len(ret.result)}

\* C1: the list returned by a local search is sorted by non-increasing
\* score, and two results of equal score come in the order in which their
\* records were inserted.
ThmC1 ==
  LocalSearchDone =>
    \A i, j \in 1 .. Len(ret.result) :
      i < j => /\ ret.result[i].score >= ret.result[j].score
               /\ ret.result[i].score = ret.result[j].score
                    => Pos(ret.result[i].id) < Pos(ret.result[j].id)

\* a search that returned two results of equal score
WitC1 ==
  /\ LocalSearchDone
  /\ \E i, j \in 1 .. Len(ret.result) :
       i < j /\ ret.result[i].score = ret.result[j].score

\* the number of results min(n, top_k) and never above top_k
CappedAtTopK ==
  LET n == Cardinality(Survivors(ret.query, ret.threshold))
  IN  /\ Len(ret.result) = Min(n, ret.top_k)
      /\ Len(ret.result) <= ret.top_k

\* C2 as stated: for every integer top_k, a local search with n records at
\* or above the threshold returns exactly min(n, top_k) results and never
\* more than top_k.
CexC2 == LocalSearchDone => CappedAtTopK

\* C2 amended: the same for every top_k >= 0.
ThmC2 == (LocalSearchDone /\ ret.top_k >= 0) => CappedAtTopK

\* a search cut short by top_k: more survivors than top_k
WitC2 ==
  /\ LocalSearchDone
  /\ ret.top_k >= 1
  /\ Cardinality(Survivors(ret.query, ret.threshold)) > ret.top_k
  /\ Len(ret.result) = ret.top_k

\* C3: a local search whose embedding step succeeds raises nothing; every
\* result is a stored record with its score, at or above the threshold; a
\* stored record at or above the threshold is missing from the result only
\* if top_k results with a score at least as high are returned; on an empty
\* store the result is empty.
ThmC3 ==
  (~use_pinecone /\ ret.op = "search" /\ ret.fault = "none") =>
    /\ ret.raised = "none"
    /\ \A j \in 1 .. Len(ret.result) :
         /\ ret.result[j].score >= ret.threshold
         /\ ret.result[j].id \in StoreIds(memory_store)
         /\ ret.result[j].score = Score(ret.query, memory_store[Pos(ret.result[j].id)])
    /\ \A i \in Survivors(ret.query, ret.threshold) :
         memory_store[i].id \notin ResultIds =>
           Cardinality({j \in 1 .. Len(ret.result) :
                          ret.result[j].score >= Score(ret.query, memory_store[i])})
             >= ret.top_k
    /\ memory_store = <<>> => ret.result = <<>>

\* a record at or above the threshold left out because top_k others are returned
WitC3 ==
  /\ LocalSearchDone
  /\ ret.top_k >= 1
  /\ \E i \in Survivors(ret.query, ret.threshold) : memory_store[i].id \notin ResultIds

\* C4: a local delete raises nothing; it returns True for an id that
\* add_knowledge returned and that has not been deleted yet, and the record
\* is gone; for any other id (deleted before, or never in the store) it
\* returns False and leaves the store unchanged.
ThmC4 ==
  [][(~use_pinecone /\ ret'.op = "delete") =>
       /\ ret'.raised = "none"
       /\ IF ret'.id \in added \ deleted
          THEN /\ ret'.result = TRUE
               /\ ret'.id \notin StoreIds(memory_store')
               /\ Len(memory_store') = Len(memory_store) - 1
          ELSE /\ ret'.result = FALSE
               /\ memory_store' = memory_store]_vars

\* a second delete of an id that was deleted before, answering False
WitC4 ==
  /\ ~use_pinecone
  /\ ret.op = "delete"
  /\ ret.id \in deleted
  /\ ret.result = FALSE

\* C5 as stated: an add_knowledge that fails leaves the store as it was; one
\* that returns an id has stored exactly one new record with that id, the
\* text, the metadata, a timestamp and the embedding.
CexC5 ==
  [][ret'.op = "add" =>
       IF ret'.raised # "none"
       THEN memory_store' = memory_store /\ index' = index
       ELSE IF use_pinecone
            THEN \E v \in index' :
                   /\ v \notin index
                   /\ index' = index \cup {v}
                   /\ v.id = ret'.id
                   /\ v.values = generate_embedding(ret'.text)
                   /\ DictGet(v.metadata, "text", "") = ret'.text
                   /\ ret'.metadata \subseteq v.metadata
                   /\ "timestamp" \in DictKeys(v.metadata)
            ELSE /\ Len(memory_store') = Len(memory_store) + 1
                 /\ SubSeq(memory_store', 1, Len(memory_store)) = memory_store
                 /\ LET e == memory_store'[Len(memory_store')]
                    IN  /\ e.id = ret'.id
                        /\ e.text = ret'.text
                        /\ e.metadata = ret'.metadata
                        /\ e.embedding = generate_embedding(ret'.text)]_vars

\* C6 as stated: whatever matches the remote query answers with, the list
\* search returns is sorted by descending score, holds only scores at or
\* above the threshold and has at most top_k entries.
CexC6 ==
  (use_pinecone /\ ret.op = "search" /\ ret.raised = "none") =>
    /\ \A i, j \in 1 .. Len(ret.result) :
         i < j => ret.result[i].score >= ret.result[j].score
    /\ \A j \in 1 .. Len(ret.result) : ret.result[j].score >= ret.threshold
    /\ Len(ret.result) <= ret.top_k

\* C7: a search whose embedding step or backend call fails raises instead of
\* returning a list, and /chat then answers 500; a /chat answer of 200 comes
\* from a search that did not fail.
ThmC7 ==
  /\ (ret.op = "search" /\ ret.fault # "none") => ret.raised # "none"
  /\ (ret.op = "chat" /\ ret.fault # "none") => (ret.raised # "none" /\ ret.status = 500)
  /\ (ret.op = "chat" /\ ret.status = 200) => ret.fault = "none"

\* a /chat whose remote query failed, answered with 500
WitC7 == ret.op = "chat" /\ ret.fault = "backend" /\ ret.status = 500

\* C8 as stated: a get_stats run on the thread pool while the event loop
\* mutates the store never raises and takes total_entries and dimension from
\* one store state.
CexC8 ==
  thr.pc = "done" => (thr.raised = "none" /\ Cardinality(thr.seen) = 1)

\* the score of a text against itself
SelfScore(text) ==
  IF Dot(generate_embedding(text), generate_embedding(text)) # 0 THEN 100 ELSE 0

\* C9 as stated, in the case most favourable to it (X has a non-zero
\* embedding, search is called with its default top_k and threshold): right
\* after add_knowledge(X) returned r, search(X) returns a result for r with
\* score 1.0, and it is the first result whenever no other stored record has a
\* strictly higher score.
CexC9 ==
  [][(/\ ~use_pinecone
      /\ ret.op = "add" /\ ret.raised = "none"
      /\ ret'.op = "search" /\ ret'.fault = "none"
      /\ ret'.query = ret.text
      /\ SelfScore(ret.text) = 100
      /\ ret'.top_k = DefaultTopK /\ ret'.threshold = DefaultThreshold) =>
       LET res == ret'.result
           r   == memory_store[Pos(ret.id)]
       IN  /\ \E j \in 1 .. Len(res) : res[j].id = ret.id /\ res[j].score = 100
           /\ (\A i \in 1 .. Len(memory_store) :
                 memory_store[i].id # ret.id =>
                   ~(Score(ret.text, memory_store[i]) > Score(ret.text, r)))
                => (res # <<>> /\ res[1].id = ret.id)]_vars

\* C9 amended: for a stored record r with text X, search(X, top_k, threshold)
\* gives r the score 1.0 if the embedding of X is not the zero vector and 0.0
\* if it is; with top_k >= 1 and threshold at most that score, r is returned
\* exactly when fewer than top_k other records are ahead of it (a strictly
\* higher score, or an equal score and an earlier insertion), and it is the
\* first result exactly when no record is ahead of it.
ThmC9 ==
  LocalSearchDone =>
    \A i \in 1 .. Len(memory_store) :
      memory_store[i].text = ret.query =>
        LET sc    == SelfScore(ret.query)
            ahead == {j \in 1 .. Len(memory_store) :
                        \/ Score(ret.query, memory_store[j]) > sc
                        \/ Score(ret.query, memory_store[j]) = sc /\ j < i}
            at    == {j \in 1 .. Len(ret.result) : ret.result[j].id = memory_store[i].id}
        IN  /\ \A j \in at : ret.result[j].score = sc
            /\ (ret.top_k >= 1 /\ ret.threshold <= sc) =>
                 /\ at # {} <=> Cardinality(ahead) < ret.top_k
                 /\ 1 \in at <=> ahead = {}

\* a search for X that returns the record of X with score 1.0 behind an
\* older record of the same score
WitC9 ==
  /\ LocalSearchDone
  /\ Len(ret.result) >= 2
  /\ ret.result[2].text = ret.query
  /\ ret.result[2].score = 100
  /\ ret.result[1].score = 100

\* C10: get_stats on the in-memory store reports as total_entries the number
\* of records added and not deleted, and as dimension 0 exactly when there is
\* none, otherwise the embedding length of every stored record.
ThmC10 ==
  (~use_pinecone /\ ret.op = "stats") =>
    /\ ret.result.total_entries = Cardinality(added \ deleted)
    /\ ret.result.dimension = 0 <=> added \ deleted = {}
    /\ \A i \in 1 .. Len(memory_store) :
         Len(memory_store[i].embedding) = ret.result.dimension

\* get_stats after every record has been deleted again
WitC10 ==
  /\ ~use_pinecone
  /\ ret.op = "stats"
  /\ deleted # {}
  /\ added \ deleted = {}
  /\ ret.result.dimension = 0

\* C11: list_all on the in-memory store returns, oldest first, one projection
\* (id, text, metadata, timestamp, no embedding) for every record added and not
\* deleted, and nothing else; on the Pinecone backend it returns the empty
\* list in every state and makes no call on the index.
ThmC11 ==
  ret.op = "list" =>
    IF use_pinecone
    THEN ret.result = <<>> /\ ret.calls = <<>> /\ ret.count = 0
    ELSE /\ Len(ret.result) = Cardinality(added \ deleted)
         /\ ret.count = Cardinality(added \ deleted)
         /\ {ret.result[i].id : i \in 1 .. Len(ret.result)} = added \ deleted
         /\ \A i \in 1 .. Len(ret.result) :
              /\ DOMAIN ret.result[i] = {"id", "text", "metadata", "timestamp"}
              /\ ret.result[i].id = memory_store[i].id
              /\ ret.result[i].text = memory_store[i].text
              /\ ret.result[i].metadata = memory_store[i].metadata
              /\ ret.result[i].timestamp = memory_store[i].timestamp
         /\ \A i, j \in 1 .. Len(ret.result) :
              i < j => ret.result[i].id < ret.result[j].id

\* a listing of two stored records
WitC11 == ~use_pinecone /\ ret.op = "list" /\ Len(ret.result) >= 2

\* C12: no two records of the in-memory store have the same id, and the id
\* an add_knowledge returns was returned by no earlier add_knowledge, whether
\* or not its record has been deleted since.
ThmC12 ==
  [][/\ \A i, j \in 1 .. Len(memory_store') :
          memory_store'[i].id = memory_store'[j].id => i = j
     /\ (~use_pinecone /\ ret'.op = "add" /\ ret'.raised = "none") =>
          /\ ret'.id \notin added
          /\ ret'.id \notin deleted
          /\ ret'.id \notin StoreIds(memory_store)
          /\ added' = added \cup {ret'.id}]_vars

\* an add_knowledge that returns an id after another record has been deleted
WitC12 ==
  /\ ~use_pinecone
  /\ ret.op = "add"
  /\ ret.raised = "none"
  /\ deleted # {}

\* the records of a store, as a set
Records(store) == {store[i] : i \in 1 .. Len(store)}

\* the records common to two stores come in the same order in both
SameOrder(before, after) ==
  \A i, j \in 1 .. Len(before) :
    \A k, l \in 1 .. Len(after) :
      (before[i] = after[k] /\ before[j] = after[l] /\ i < j) => k < l

ThmC14 ==
  (use_pinecone /\ ret.op = "delete") =>
    /\ ret.calls = <<"delete">>
    /\ ret.fault = "none" =>
         (ret.raised = "none" /\ ret.result = TRUE /\ ret.status = 200)
    /\ ret.fault # "none" =>
         (ret.raised # "none" /\ ret.result = FALSE /\ ret.status = 500)
    /\ ret.status # 404

\* a remote delete of an id that add_knowledge never returned, answered True
WitC14 ==
  /\ use_pinecone
  /\ ret.op = "delete"
  /\ ret.id \notin added
  /\ ret.result = TRUE
  /\ ret.status = 200

====
